---- MODULE Spec2Model ----
(***************************************************************************)
(* Model of configs/ruby/Ruby.py: the registry of Ruby memory-controller   *)
(* classes built at import, the lookup get_ruby_mem_class, the option      *)
(* defaults of define_options, and create_system, followed statement by    *)
(* statement.  Python exceptions and sys.exit end the run in a terminal    *)
(* value of pc.                                                            *)
(***************************************************************************)
EXTENDS Integers, Sequences, FiniteSets, TLC

(* ---------------------------- bounds ----------------------------------- *)
MaxDirs == 2
MaxRanges == 2

\* sizes a directory or a physical memory range may have (abstract units)
SizeUnits == {1, 2}
\* names of the concrete MemoryControl subclasses m5.objects may contain
ClassUniverse == {"RubyMemoryControl", "NVMMemoryControl", "OtherMemoryControl"}
\* values create_system may be handed as options.ruby_mem_type
TypeNames == {"ruby", "nvmain", "NVMMemoryControl", "OtherMemoryControl", "bogus"}
\* values of options.cacheline_size
CachelineSizes == {0, 16, 48, 64}
\* values given on the command line for --numa-high-bit
NumaArgs == {0, 5}
\* values of options.garnet_network ("None": the option was not given)
GarnetChoices == {"fixed", "flexible", "None"}

VARIABLES
  m5_objects,          \* names of the instantiable MemoryControl classes
  _ruby_mem_classes,   \* dict name -> class
  _ruby_mem_aliases,   \* dict alias -> name
  options,             \* the options object handed to create_system
  numa_given,          \* whether --numa-high-bit was on the command line
  mem_ranges,          \* system.mem_ranges, as the sequence of their sizes
  ruby,                \* system.ruby
  dir_cntrls,          \* the directory controllers the protocol returned
  network,             \* the local variable network
  i,                   \* loop index of the memBuffer override loop
  k,                   \* position in the loop over dir_cntrls
  numa_bit,
  total_mem_size,
  n_objs,              \* number of memory controllers instantiated so far
  pc

vars == <<m5_objects, _ruby_mem_classes, _ruby_mem_aliases, options,
          numa_given, mem_ranges, ruby, dir_cntrls, network, i, k,
          numa_bit, total_mem_size, n_objs, pc>>

(* ---------------------------- helpers ---------------------------------- *)
RECURSIVE SeqSum(_)
SeqSum(s) == IF s = <<>> THEN 0 ELSE Head(s) + SeqSum(Tail(s))

SeqsUpTo(S, n) == UNION {[1..m -> S] : m \in 0..n}

\* int(math.log(x, 2)) for x >= 1
RECURSIVE IntLog2(_)
IntLog2(x) == IF x <= 1 THEN 0 ELSE 1 + IntLog2(x \div 2)

\* the class object registered under a name
ClassOf(name) == [class |-> name]

EmptyDict == [x \in {} |-> ""]
DictSet(d, key, v) == [x \in (DOMAIN d) \cup {key} |-> IF x = key THEN v ELSE d[x]]

(* ------------------------- module import ------------------------------- *)
_ruby_mem_aliases_all ==
  << [alias |-> "ruby",   isTuple |-> FALSE, target |-> <<"RubyMemoryControl">>],
     [alias |-> "nvmain", isTuple |-> FALSE, target |-> <<"NVMMemoryControl">>] >>

\* for name, cls in inspect.getmembers(m5.objects, is_ruby_mem_class)
ScanClasses(objs) == [name \in objs |-> ClassOf(name)]

\* index of the first target of a tuple that is registered, 0 when none is
RECURSIVE FirstAvailable(_, _, _)
FirstAvailable(target, classes, n) ==
  IF n > Len(target) THEN 0
  ELSE IF target[n] \in DOMAIN classes THEN n
  ELSE FirstAvailable(target, classes, n + 1)

\* BuildAliases without the tests that the target is registered
RECURSIVE BuildAliases_unchecked(_, _, _)
BuildAliases_unchecked(classes, n, acc) ==
  IF n > Len(_ruby_mem_aliases_all) THEN acc
  ELSE LET e == _ruby_mem_aliases_all[n]
       IN BuildAliases_unchecked(classes, n + 1, DictSet(acc, e.alias, e.target[1]))

\* for alias, target in _ruby_mem_aliases_all: ...
RECURSIVE BuildAliases(_, _, _)
BuildAliases(classes, n, acc) ==
  IF n > Len(_ruby_mem_aliases_all) THEN acc
  ELSE LET e == _ruby_mem_aliases_all[n]
           f == FirstAvailable(e.target, classes, 1)
       IN IF e.isTuple
          THEN BuildAliases(classes, n + 1,
                 IF f = 0 THEN acc ELSE DictSet(acc, e.alias, e.target[f]))
          ELSE BuildAliases(classes, n + 1,
                 IF e.target[1] \in DOMAIN classes
                 THEN DictSet(acc, e.alias, e.target[1]) ELSE acc)

ruby_mem_names == (DOMAIN _ruby_mem_classes) \cup (DOMAIN _ruby_mem_aliases)

\* the dictionary lookups of get_ruby_mem_class; ok = FALSE is the KeyError
\* branch, which prints the message and calls sys.exit(1)
get_ruby_mem_class(name) ==
  LET real_name == IF name \in DOMAIN _ruby_mem_aliases
                   THEN _ruby_mem_aliases[name] ELSE name
  IN IF real_name \in DOMAIN _ruby_mem_classes
     THEN [ok |-> TRUE, cls |-> _ruby_mem_classes[real_name]]
     ELSE [ok |-> FALSE, cls |-> ClassOf("None")]

(* ------------------------- define_options ------------------------------ *)
NumaHighBitDefault == 0
RubyMemTypeDefault == "nvmain"
RubyMemTypeChoices == ruby_mem_names

\* the value optparse stores for --numa-high-bit
parse_numa_high_bit(given, arg) == IF given THEN arg ELSE NumaHighBitDefault

(* --------------------------- create_system ----------------------------- *)
\* the protocol's create_system: one directory controller per directory,
\* registered as ruby.dir_cntrl<n> with version n, each with its own
\* memBuffer and directory
ProtocolDirCntrls(sizes) ==
  [n \in 1..Len(sizes) |->
     [version |-> n - 1,
      directory |-> [size |-> sizes[n], numa_set |-> FALSE, numa_high_bit |-> 0],
      memBuffer |-> [class |-> "protocol", version |-> n - 1,
                     ruby_system |-> "none", obj |-> 0],
      overrides |-> 0]]

NetworkClassOf(garnet) ==
  IF garnet = "fixed" THEN "GarnetNetwork_d"
  ELSE IF garnet = "flexible" THEN "GarnetNetwork"
  ELSE "SimpleNetwork"

InterfaceClassOf(garnet) ==
  IF garnet = "fixed" THEN "GarnetNetworkInterface_d"
  ELSE IF garnet = "flexible" THEN "GarnetNetworkInterface"
  ELSE "None"

Init ==
  /\ m5_objects \in SUBSET ClassUniverse
  /\ _ruby_mem_classes = EmptyDict
  /\ _ruby_mem_aliases = EmptyDict
  /\ options = [ruby_mem_type |-> RubyMemTypeDefault, num_dirs |-> 0,
                use_map |-> FALSE, garnet_network |-> "None",
                network_fault_model |-> FALSE,
                numa_high_bit |-> NumaHighBitDefault, cacheline_size |-> 64]
  /\ numa_given = FALSE
  /\ mem_ranges = <<>>
  /\ ruby = [created |-> FALSE, no_mem_vec |-> FALSE, network |-> "None",
             mem_size_set |-> FALSE, mem_size |-> 0, block_size_bytes |-> 0]
  /\ dir_cntrls = <<>>
  /\ network = [class |-> "None", has_netifs |-> FALSE,
                enable_fault_model |-> FALSE, fault_model |-> "None"]
  /\ i = 0
  /\ k = 1
  /\ numa_bit = 0
  /\ total_mem_size = 0
  /\ n_objs = 0
  /\ pc = "import"

\* lines 74-88: executed once when the module is imported
import_module ==
  /\ pc = "import"
  /\ _ruby_mem_classes' = ScanClasses(m5_objects)
  /\ _ruby_mem_aliases' = BuildAliases(ScanClasses(m5_objects), 1, EmptyDict)
  /\ pc' = "ready"
  /\ UNCHANGED <<m5_objects, options, numa_given, mem_ranges, ruby, dir_cntrls,
                 network, i, k, numa_bit, total_mem_size, n_objs>>

\* lines 192-202: the call, the RubySystem and the protocol's create_system
create_system_begin ==
  /\ pc = "ready"
  /\ \E type \in TypeNames, nd \in 0..MaxDirs, um \in BOOLEAN,
        gn \in GarnetChoices, fm \in BOOLEAN, given \in BOOLEAN,
        arg \in NumaArgs, cs \in CachelineSizes,
        mr \in SeqsUpTo(SizeUnits, MaxRanges) :
       /\ given \/ arg = 0
       /\ options' = [ruby_mem_type |-> type, num_dirs |-> nd, use_map |-> um,
                      garnet_network |-> gn, network_fault_model |-> fm,
                      numa_high_bit |-> parse_numa_high_bit(given, arg),
                      cacheline_size |-> cs]
       /\ numa_given' = given
       /\ mem_ranges' = mr
       /\ ruby' = [ruby EXCEPT !.created = TRUE, !.no_mem_vec = um]
       /\ \E sizes \in [1..nd -> SizeUnits] :
            dir_cntrls' = ProtocolDirCntrls(sizes)
  /\ i' = 0
  /\ pc' = "override"
  /\ UNCHANGED <<m5_objects, _ruby_mem_classes, _ruby_mem_aliases, network, k,
                 numa_bit, total_mem_size, n_objs>>

\* lines 203-205: the protocol's create_system raised; the error is re-raised
protocol_raises ==
  /\ pc = "ready"
  /\ pc' = "raised"
  /\ UNCHANGED <<m5_objects, _ruby_mem_classes, _ruby_mem_aliases, options,
                 numa_given, mem_ranges, ruby, dir_cntrls, network, i, k,
                 numa_bit, total_mem_size, n_objs>>

\* NewMemCntrl with every controller given version 0
NewMemCntrl_v0(cls, idx, obj) ==
  [class |-> cls.class, version |-> 0, ruby_system |-> "ruby", obj |-> obj]

\* the memBuffer a directory gets in one pass of the loop of lines 208-214
NewMemCntrl(cls, idx, obj) ==
  [class |-> cls.class, version |-> idx, ruby_system |-> "ruby", obj |-> obj]

\* lines 208-214: one pass of the loop; the lookup failing ends the process
\* (sys.exit(1), or NameError where the name sys is not bound)
override_memBuffer ==
  /\ pc = "override"
  /\ i < options.num_dirs
  /\ LET r == get_ruby_mem_class(options.ruby_mem_type)
     IN IF r.ok
        THEN /\ dir_cntrls' = [dir_cntrls EXCEPT
                  ![i + 1].memBuffer = NewMemCntrl(r.cls, i, n_objs + 1),
                  ![i + 1].overrides = @ + 1]
             /\ n_objs' = n_objs + 1
             /\ ruby' = [ruby EXCEPT !.no_mem_vec = FALSE]
             /\ i' = i + 1
             /\ pc' = "override"
        ELSE /\ pc' \in {"exit1", "raised"}
             /\ UNCHANGED <<dir_cntrls, n_objs, ruby, i>>
  /\ UNCHANGED <<m5_objects, _ruby_mem_classes, _ruby_mem_aliases, options,
                 numa_given, mem_ranges, network, k, numa_bit, total_mem_size>>

\* lines 216-261: the port proxy, the network classes and the network
build_network ==
  /\ pc = "override"
  /\ i >= options.num_dirs
  /\ network' = [class |-> NetworkClassOf(options.garnet_network),
                 has_netifs |-> InterfaceClassOf(options.garnet_network) # "None",
                 enable_fault_model |-> FALSE, fault_model |-> "None"]
  /\ pc' = "fault"
  /\ UNCHANGED <<m5_objects, _ruby_mem_classes, _ruby_mem_aliases, options,
                 numa_given, mem_ranges, ruby, dir_cntrls, i, k, numa_bit,
                 total_mem_size, n_objs>>

\* fault_model without the assertion on garnet_network
fault_model_noassert ==
  /\ pc = "fault"
  /\ IF options.network_fault_model
     THEN network' = [network EXCEPT !.enable_fault_model = TRUE,
                                     !.fault_model = "FaultModel"]
     ELSE UNCHANGED network
  /\ pc' = "numa"
  /\ UNCHANGED <<m5_objects, _ruby_mem_classes, _ruby_mem_aliases, options,
                 numa_given, mem_ranges, ruby, dir_cntrls, i, k, numa_bit,
                 total_mem_size, n_objs>>

\* lines 263-266
fault_model ==
  /\ pc = "fault"
  /\ IF options.network_fault_model
     THEN IF options.garnet_network = "fixed"
          THEN /\ network' = [network EXCEPT !.enable_fault_model = TRUE,
                                             !.fault_model = "FaultModel"]
               /\ pc' = "numa"
          ELSE /\ pc' = "raised"
               /\ UNCHANGED network
     ELSE /\ pc' = "numa"
          /\ UNCHANGED network
  /\ UNCHANGED <<m5_objects, _ruby_mem_classes, _ruby_mem_aliases, options,
                 numa_given, mem_ranges, ruby, dir_cntrls, i, k, numa_bit,
                 total_mem_size, n_objs>>

\* NumaBitOf without the "- 1"
NumaBitOf_noMinus(high_bit, cacheline_size, num_dirs) ==
  IF high_bit # 0 THEN high_bit
  ELSE IntLog2(cacheline_size) + IntLog2(num_dirs)

\* lines 279-288: the bit the directories are given
NumaBitOf(high_bit, cacheline_size, num_dirs) ==
  IF high_bit # 0 THEN high_bit
  ELSE IntLog2(cacheline_size) + IntLog2(num_dirs) - 1

\* lines 276-288; math.log raises ValueError for an argument <= 0
compute_numa_bit ==
  /\ pc = "numa"
  /\ total_mem_size' = 0
  /\ IF options.cacheline_size <= 0
        \/ (options.numa_high_bit = 0 /\ options.num_dirs <= 0)
     THEN /\ pc' = "raised"
          /\ ruby' = IF options.cacheline_size <= 0 THEN ruby
                     ELSE [ruby EXCEPT !.block_size_bytes = options.cacheline_size]
          /\ UNCHANGED numa_bit
     ELSE /\ ruby' = [ruby EXCEPT !.block_size_bytes = options.cacheline_size]
          /\ numa_bit' = NumaBitOf(options.numa_high_bit,
                                   options.cacheline_size, options.num_dirs)
          /\ pc' = "sum"
  /\ k' = 1
  /\ UNCHANGED <<m5_objects, _ruby_mem_classes, _ruby_mem_aliases, options,
                 numa_given, mem_ranges, dir_cntrls, network, i, n_objs>>

\* lines 290-292: one pass of the loop over dir_cntrls
sum_directory ==
  /\ pc = "sum"
  /\ k <= Len(dir_cntrls)
  /\ total_mem_size' = total_mem_size + dir_cntrls[k].directory.size
  /\ dir_cntrls' = [dir_cntrls EXCEPT ![k].directory.numa_high_bit = numa_bit,
                                      ![k].directory.numa_set = TRUE]
  /\ k' = k + 1
  /\ UNCHANGED <<m5_objects, _ruby_mem_classes, _ruby_mem_aliases, options,
                 numa_given, mem_ranges, ruby, network, i, numa_bit, n_objs, pc>>

\* check_mem_size without the assertion
check_mem_size_noassert ==
  /\ pc = "sum"
  /\ k > Len(dir_cntrls)
  /\ ruby' = [ruby EXCEPT !.network = network.class, !.mem_size_set = TRUE,
                          !.mem_size = total_mem_size]
  /\ pc' = "ports"
  /\ UNCHANGED <<m5_objects, _ruby_mem_classes, _ruby_mem_aliases, options,
                 numa_given, mem_ranges, dir_cntrls, network, i, k, numa_bit,
                 total_mem_size, n_objs>>

\* lines 294-298: the size check and the two assignments
check_mem_size ==
  /\ pc = "sum"
  /\ k > Len(dir_cntrls)
  /\ LET phys_mem_size == SeqSum(mem_ranges)
     IN IF total_mem_size = phys_mem_size
        THEN /\ ruby' = [ruby EXCEPT !.network = network.class,
                                     !.mem_size_set = TRUE,
                                     !.mem_size = total_mem_size]
             /\ pc' = "ports"
        ELSE /\ pc' = "raised"
             /\ UNCHANGED ruby
  /\ UNCHANGED <<m5_objects, _ruby_mem_classes, _ruby_mem_aliases, options,
                 numa_given, mem_ranges, dir_cntrls, network, i, k, numa_bit,
                 total_mem_size, n_objs>>

\* lines 300-311: the sequencers' ports and the remaining fields of ruby
connect_ports ==
  /\ pc = "ports"
  /\ pc' = "done"
  /\ UNCHANGED <<m5_objects, _ruby_mem_classes, _ruby_mem_aliases, options,
                 numa_given, mem_ranges, ruby, dir_cntrls, network, i, k,
                 numa_bit, total_mem_size, n_objs>>

Next ==
  \/ import_module
  \/ create_system_begin
  \/ protocol_raises
  \/ override_memBuffer
  \/ build_network
  \/ fault_model
  \/ compute_numa_bit
  \/ sum_directory
  \/ check_mem_size
  \/ connect_ports

Spec == Init /\ [][Next]_vars

TypeOK ==
  /\ pc \in {"import", "ready", "override", "fault", "numa", "sum", "ports",
             "done", "exit1", "raised"}
  /\ i \in 0..(MaxDirs + 1)
  /\ Len(dir_cntrls) <= MaxDirs + 1

(* ------------------------------ claims --------------------------------- *)
Started == pc \notin {"import", "ready"}
PastOverride == pc \in {"fault", "numa", "sum", "ports", "done"}
PastFault == pc \in {"numa", "sum", "ports", "done"}
Completed == pc \in {"ports", "done"}

DirSizes == [n \in 1..Len(dir_cntrls) |-> dir_cntrls[n].directory.size]

IsPow2(c) == \E e \in 0..16 : 2^e = c
Log2Exact(c) == CHOOSE e \in 0..16 : 2^e = c
FloorLog2(n) == CHOOSE e \in 0..16 : 2^e <= n /\ n < 2^(e + 1)

\* C1: with options.ruby_mem_type neither a registered class name nor a
\* registered alias, the lookup yields no class and create_system never
\* gets as far as building the network, whatever options.num_dirs is.
C1_Claim ==
  (Started /\ options.ruby_mem_type \notin ruby_mem_names)
    => /\ ~get_ruby_mem_class(options.ruby_mem_type).ok
       /\ ~PastOverride
       /\ network.class = "None"

C4_AliasesResolve ==
  pc # "import" =>
    /\ \A a \in DOMAIN _ruby_mem_aliases :
         /\ _ruby_mem_aliases[a] \in DOMAIN _ruby_mem_classes
         /\ _ruby_mem_aliases[a] \in m5_objects
         /\ \E n \in 1..Len(_ruby_mem_aliases_all) :
              /\ _ruby_mem_aliases_all[n].alias = a
              /\ _ruby_mem_aliases_all[n].target[1] = _ruby_mem_aliases[a]
         /\ get_ruby_mem_class(a).ok
         /\ get_ruby_mem_class(a) = get_ruby_mem_class(_ruby_mem_aliases[a])
         /\ get_ruby_mem_class(a).cls = ClassOf(_ruby_mem_aliases[a])
    /\ \A name \in ruby_mem_names :
         /\ get_ruby_mem_class(name).ok
         /\ \E c \in DOMAIN _ruby_mem_classes :
              get_ruby_mem_class(name).cls = _ruby_mem_classes[c]

C4_Witness ==
  /\ pc = "ready"
  /\ m5_objects = {"NVMMemoryControl", "OtherMemoryControl"}
  /\ DOMAIN _ruby_mem_aliases = {"nvmain"}
  /\ _ruby_mem_aliases["nvmain"] = "NVMMemoryControl"

\* C5: whatever classes are present, the default of --ruby-mem-type is one
\* of the option's choices and get_ruby_mem_class returns a class for it.
C5_Claim ==
  pc # "import" =>
    /\ RubyMemTypeDefault \in RubyMemTypeChoices
    /\ get_ruby_mem_class(RubyMemTypeDefault).ok

\* C6: with --numa-high-bit given as 0 every directory gets a numa_high_bit
\* higher than the one it gets when the option is not given.
C6_Claim ==
  \A n \in 1..Len(dir_cntrls) :
    (numa_given /\ options.numa_high_bit = 0 /\ dir_cntrls[n].directory.numa_set)
      => dir_cntrls[n].directory.numa_high_bit >
           NumaBitOf(parse_numa_high_bit(FALSE, 0), options.cacheline_size,
                     options.num_dirs)

\* C7: with options.use_map set, once create_system has completed
\* ruby.no_mem_vec is true and ruby.mem_size is 0.
C7_Claim ==
  (pc = "done" /\ options.use_map) => (ruby.no_mem_vec /\ ruby.mem_size = 0)

\* C8 as stated: with numa_high_bit not given, a power-of-two cacheline_size
\* and num_dirs >= 1, every directory gets
\* log2(cacheline_size) + floor(log2(num_dirs)) - 1, and that bit is not
\* below log2(cacheline_size).
C8_Claim ==
  \A n \in 1..Len(dir_cntrls) :
    (dir_cntrls[n].directory.numa_set /\ ~numa_given
       /\ IsPow2(options.cacheline_size) /\ options.num_dirs >= 1)
      => /\ dir_cntrls[n].directory.numa_high_bit =
              Log2Exact(options.cacheline_size) + FloorLog2(options.num_dirs) - 1
         /\ dir_cntrls[n].directory.numa_high_bit >=
              Log2Exact(options.cacheline_size)

\* C8 amended: with numa_high_bit not given, a power-of-two cacheline_size
\* and num_dirs >= 1, every directory gets
\* log2(cacheline_size) + floor(log2(num_dirs)) - 1; that bit is not below
\* log2(cacheline_size) when num_dirs >= 2 and is log2(cacheline_size) - 1
\* when num_dirs = 1.  With a nonzero options.numa_high_bit every directory
\* gets that value.  Once create_system has completed every directory has
\* been given its bit.
C8_NumaBit ==
  /\ \A n \in 1..Len(dir_cntrls) :
       /\ (dir_cntrls[n].directory.numa_set /\ ~numa_given
             /\ IsPow2(options.cacheline_size) /\ options.num_dirs >= 1)
            => /\ dir_cntrls[n].directory.numa_high_bit =
                    Log2Exact(options.cacheline_size)
                      + FloorLog2(options.num_dirs) - 1
               /\ options.num_dirs >= 2 =>
                    dir_cntrls[n].directory.numa_high_bit >=
                      Log2Exact(options.cacheline_size)
               /\ options.num_dirs = 1 =>
                    dir_cntrls[n].directory.numa_high_bit =
                      Log2Exact(options.cacheline_size) - 1
       /\ (dir_cntrls[n].directory.numa_set /\ options.numa_high_bit # 0)
            => dir_cntrls[n].directory.numa_high_bit = options.numa_high_bit
       /\ Completed => dir_cntrls[n].directory.numa_set

C8_Witness ==
  /\ pc = "done"
  /\ ~numa_given
  /\ options.cacheline_size = 64
  /\ options.num_dirs = 2
  /\ \A n \in 1..Len(dir_cntrls) : dir_cntrls[n].directory.numa_high_bit = 6

====
